---- MODULE Spec2Model ----
(***************************************************************************)
(* Model of src/src/bin/glarea.rs: a GTK window with one GLArea whose      *)
(* create-context, resize, realize and render callbacks drive OpenGL.      *)
(* The toolkit and the GL driver are the environment: the toolkit picks    *)
(* the next callback, the driver picks object names, status flags and      *)
(* info logs, the system clock picks the readings.                         *)
(***************************************************************************)
EXTENDS Integers, Sequences, FiniteSets, TLC

(***************************************************************************)
(* Bounds of the model.                                                    *)
(***************************************************************************)
MaxSecs == 3          \* clock readings of Spec have secs in 0..MaxSecs
MaxFrames == 3        \* length of the window of most recent frames kept
MaxName == 2          \* the driver hands out object names in 1..MaxName
MaxColorSecs == 4     \* clock readings of SpecColor: secs in 0..MaxColorSecs

(***************************************************************************)
(* IEEE-754 binary32 values that are zero or normal: [s, m, e] stands for  *)
(* (-1)^s * m * 2^e with 2^23 <= m < 2^24, and [0, 0, 0] for 0.0.  Every   *)
(* operation rounds to nearest, ties to even, as f32 arithmetic does.      *)
(***************************************************************************)
F32Zero == [s |-> 0, m |-> 0, e |-> 0]

RECURSIVE F32Normalize(_, _)
F32Normalize(m, e) ==
    IF m = 0 THEN F32Zero
    ELSE IF m < 2^23 THEN F32Normalize(2 * m, e - 1)
    ELSE [s |-> 0, m |-> m, e |-> e]

\* The f32 nearest to (H * 2^d + L) * 2^e, where 0 <= L < 2^d.
RECURSIVE F32Round(_, _, _, _)
F32Round(H, L, d, e) ==
    IF H >= 2^24 THEN F32Round(H \div 2, (H % 2) * 2^d + L, d + 1, e)
    ELSE IF H < 2^23 /\ d > 0
        THEN F32Round(2 * H + (L \div 2^(d - 1)), L % 2^(d - 1), d - 1, e)
    ELSE IF H < 2^23 THEN F32Normalize(H, e)
    ELSE LET up == (2 * L > 2^d) \/ (d > 0 /\ 2 * L = 2^d /\ H % 2 = 1)
             m == IF up THEN H + 1 ELSE H
         IN  IF m = 2^24 THEN [s |-> 0, m |-> 2^23, e |-> e + d + 1]
             ELSE [s |-> 0, m |-> m, e |-> e + d]

\* `k as f32` for 0 <= k < 2^31.
F32FromInt(k) == F32Round(k, 0, 0, 0)

F32Neg(a) == IF a.m = 0 THEN a ELSE [a EXCEPT !.s = 1 - a.s]
F32WithSign(a, s) == IF a.m = 0 THEN F32Zero ELSE [a EXCEPT !.s = s]

\* |a| < |b|
F32MagLt(a, b) ==
    IF b.m = 0 THEN FALSE
    ELSE IF a.m = 0 THEN TRUE
    ELSE a.e < b.e \/ (a.e = b.e /\ a.m < b.m)

F32Lt(a, b) ==
    IF a.s # b.s THEN a.s = 1
    ELSE IF a.s = 0 THEN F32MagLt(a, b)
    ELSE F32MagLt(b, a)

F32Le(a, b) == a = b \/ F32Lt(a, b)

\* |a| + |b|
F32AddMag(a, b) ==
    IF a.m = 0 THEN F32WithSign(b, 0)
    ELSE IF b.m = 0 THEN F32WithSign(a, 0)
    ELSE LET hi == IF a.e >= b.e THEN a ELSE b
             lo == IF a.e >= b.e THEN b ELSE a
             d  == hi.e - lo.e
         IN  IF d > 25 THEN F32WithSign(hi, 0)
             ELSE F32Round(hi.m + (lo.m \div 2^d), lo.m % 2^d, d, lo.e)

\* |a| - |b|, for |a| >= |b|.
F32SubMag(a, b) ==
    IF b.m = 0 THEN F32WithSign(a, 0)
    ELSE LET d == a.e - b.e
         IN  IF d > 25 THEN F32Round(a.m - 1, 2^26 - 1, 26, a.e - 26)
             ELSE LET q == b.m \div 2^d
                      r == b.m % 2^d
                  IN  IF r = 0 THEN F32Round(a.m - q, 0, d, b.e)
                      ELSE F32Round(a.m - q - 1, 2^d - r, d, b.e)

\* a + b
F32Add(a, b) ==
    IF a.s = b.s THEN F32WithSign(F32AddMag(a, b), a.s)
    ELSE IF F32MagLt(a, b) THEN F32WithSign(F32SubMag(b, a), b.s)
    ELSE F32WithSign(F32SubMag(a, b), a.s)

\* a - b
F32Sub(a, b) == F32Add(a, F32Neg(b))

\* Long division of the significands: after n steps q holds the first n
\* quotient bits and r twice the remainder.
RECURSIVE F32DivBits(_, _, _, _)
F32DivBits(q, r, mb, n) ==
    IF n = 0 THEN [q |-> q, r |-> r]
    ELSE IF r >= mb THEN F32DivBits(2 * q + 1, 2 * (r - mb), mb, n - 1)
    ELSE F32DivBits(2 * q, 2 * r, mb, n - 1)

\* a / b, for b # 0.
F32Div(a, b) ==
    IF a.m = 0 THEN F32Zero
    ELSE LET n  == IF a.m >= b.m THEN 24 ELSE 25
             qr == F32DivBits(0, a.m, b.m, n)
             up == qr.r > b.m \/ (qr.r = b.m /\ qr.q % 2 = 1)
             m  == IF up THEN qr.q + 1 ELSE qr.q
             e  == a.e - b.e - (n - 1)
             s  == IF a.s = b.s THEN 0 ELSE 1
         IN  IF m = 2^24 THEN [s |-> s, m |-> 2^23, e |-> e + 1]
             ELSE [s |-> s, m |-> m, e |-> e]

F32One == F32FromInt(1)
F32Two == F32FromInt(2)

\* The dyadic literal n / 2^k as an f32.
F32Dyadic(n, k) == F32Div(F32FromInt(n), F32FromInt(2^k))


(***************************************************************************)
(* The system clock: a SystemTime reading is [secs, nanos] since the       *)
(* epoch.  SystemTime is not monotonic, so a later reading may be smaller. *)
(***************************************************************************)
NanosPerSec == 1000000000
NoTime == [secs |-> -1, nanos |-> 0]

TimeLt(a, b) == a.secs < b.secs \/ (a.secs = b.secs /\ a.nanos < b.nanos)

\* now.duration_since(start): Err when now is earlier than start.
duration_since(now, earlier) ==
    IF TimeLt(now, earlier) THEN [ok |-> FALSE, secs |-> 0, nanos |-> 0]
    ELSE IF now.nanos >= earlier.nanos
        THEN [ok |-> TRUE, secs |-> now.secs - earlier.secs,
              nanos |-> now.nanos - earlier.nanos]
    ELSE [ok |-> TRUE, secs |-> now.secs - earlier.secs - 1,
          nanos |-> now.nanos + NanosPerSec - earlier.nanos]

\* dur.as_secs() * 1_000 + (dur.subsec_nanos() as u64) / 1_000_000
Millis(dur) == dur.secs * 1000 + (dur.nanos \div 1000000)

\* The phase without the reduction modulo 2000.
PhaseNoWrap(millis) == F32Div(F32FromInt(millis), F32FromInt(1000))

\* ((millis % 2000) as f32) / 1000.0
Phase(millis) == F32Div(F32FromInt(millis % 2000), F32FromInt(1000))

\* The clear color without the halving of t.
ClearColorArgsNoHalf(t) == <<t, F32Sub(F32One, t), F32One, F32One>>

\* The arguments of gl::ClearColor(t / 2.0, 1.0 - (t / 2.0), 1.0, 1.0).
ClearColorArgs(t) ==
    <<F32Div(t, F32Two), F32Sub(F32One, F32Div(t, F32Two)), F32One, F32One>>

\* Clock readings drawn by Spec and by SpecColor.
SampleClock == {[secs |-> s, nanos |-> 500000000] : s \in 0..MaxSecs}
SampleStart == {[secs |-> 1, nanos |-> 0]}
FullClock ==
    {[secs |-> s, nanos |-> ms * 1000000 + off] :
        s \in 0..MaxColorSecs, ms \in 0..999, off \in {0, 999999}}
FullStart == {[secs |-> 0, nanos |-> 0], [secs |-> 1, nanos |-> 500000]}

(***************************************************************************)
(* Geometry uploaded by realize.  Coordinates are in tenths: 5 is 0.5.     *)
(***************************************************************************)
verts == <<5, 5, -5, 5, -5, -5, 5, -5>>
indices == <<0, 1, 2, 2, 3, 0>>

(***************************************************************************)
(* The GL driver.  Its state is a record; each call is a function of it.   *)
(***************************************************************************)
BufferNames == 1..MaxName
ObjectNames == 0..(MaxName + 1)      \* shader and program names; 0 = failure
Sizes == {<<640, 480>>, <<1200, 800>>}
Logs == {<<>>, <<101, 114, 114>>, <<255>>}    \* info logs, as bytes

NoDraw == [vertexArray |-> 0, arrayBuffer |-> 0, elementArrayBuffer |-> 0,
           program |-> 0, attrib0 |-> FALSE, count |-> 0, elements |-> <<>>]

GlInit == [arrayBuffer |-> 0, elementArrayBuffer |-> 0, vertexArray |-> 0,
           program |-> 0, attrib0 |-> FALSE,
           clearColor |-> <<F32Zero, F32Zero, F32Zero, F32Zero>>,
           colorBuffer |-> <<F32Zero, F32Zero, F32Zero, F32Zero>>,
           viewport |-> <<0, 0, 0, 0>>,
           attribPointer |-> [size |-> 0, stride |-> 0, buffer |-> 0],
           data |-> [n \in BufferNames |-> <<>>],
           lastDraw |-> NoDraw]

GlBound(g, target) ==
    IF target = "ARRAY_BUFFER" THEN g.arrayBuffer ELSE g.elementArrayBuffer

GlBindBuffer(g, target, name) ==
    IF target = "ARRAY_BUFFER" THEN [g EXCEPT !.arrayBuffer = name]
    ELSE [g EXCEPT !.elementArrayBuffer = name]

\* Stores the first size / elemSize elements in the buffer bound to target.
GlBufferData(g, target, size, elemSize, src) ==
    IF GlBound(g, target) \in BufferNames
    THEN [g EXCEPT !.data[GlBound(g, target)] =
                       SubSeq(src, 1, size \div elemSize)]
    ELSE g

GlBindVertexArray(g, name) == [g EXCEPT !.vertexArray = name]
GlUseProgram(g, name) == [g EXCEPT !.program = name]
GlEnableVertexAttribArray(g) == [g EXCEPT !.attrib0 = TRUE]
GlDisableVertexAttribArray(g) == [g EXCEPT !.attrib0 = FALSE]
\* The attribute reads from the buffer bound to ARRAY_BUFFER at the call.
GlVertexAttribPointer(g, size, stride) ==
    [g EXCEPT !.attribPointer =
        [size |-> size, stride |-> stride, buffer |-> g.arrayBuffer]]
GlClearColor(g, c) == [g EXCEPT !.clearColor = c]
GlClear(g) == [g EXCEPT !.colorBuffer = g.clearColor]
GlViewport(g, x, y, w, h) == [g EXCEPT !.viewport = <<x, y, w, h>>]

\* Records what is bound when the draw is issued.
GlDrawElements(g, count) ==
    [g EXCEPT !.lastDraw =
        [vertexArray |-> g.vertexArray, arrayBuffer |-> g.arrayBuffer,
         elementArrayBuffer |-> g.elementArrayBuffer, program |-> g.program,
         attrib0 |-> g.attrib0, count |-> count,
         elements |-> IF g.elementArrayBuffer \in BufferNames
                      THEN SubSeq(g.data[g.elementArrayBuffer], 1, count)
                      ELSE <<>>]]

(***************************************************************************)
(* Shader build helpers.  A driver outcome d is [name, status, log]: the   *)
(* name CreateShader / CreateProgram returns (0 on failure), the status    *)
(* flag and the info log.                                                  *)
(***************************************************************************)
NoMsg == [lit |-> "", bytes |-> <<>>]

\* INFO_LOG_LENGTH: the log's length with its NUL terminator, 0 without log.
InfoLogLength(log) == IF log = <<>> THEN 0 ELSE Len(log) + 1

\* Vec::with_capacity(len): room for len bytes, length 0.
VecWithCapacity(len) == [len |-> 0, cap |-> len, mem |-> <<>>]

\* GetShaderInfoLog / GetProgramInfoLog writes through the raw pointer: the
\* allocation receives the log and its NUL, the Vec's length is untouched.
GetInfoLog(buf, maxLength, log) ==
    IF maxLength = 0 THEN buf
    ELSE [buf EXCEPT !.mem =
             IF Len(log) <= maxLength - 1 THEN Append(log, 0)
             ELSE Append(SubSeq(log, 1, maxLength - 1), 0)]

\* &buf: the first buf.len bytes.
VecSlice(buf) == SubSeq(buf.mem, 1, buf.len)

\* str::from_utf8 on the bytes the model draws: ASCII is valid, 0xFF is not.
Utf8Ok(bytes) == \A i \in 1..Len(bytes) : bytes[i] < 128

\* The status GetShaderiv / GetProgramiv leaves in `status`, which starts as
\* gl::FALSE and is not written for the name 0.
DriverStatus(d) == d.name # 0 /\ d.status

InfoLogPanic(d, notUtf8) ==
    LET len  == IF d.name = 0 THEN 0 ELSE InfoLogLength(d.log)
        buf  == GetInfoLog(VecWithCapacity(len), len, d.log)
        text == VecSlice(buf)
    IN  IF Utf8Ok(text) THEN [lit |-> "", bytes |-> text]
        ELSE [lit |-> notUtf8, bytes |-> <<>>]

\* compile_shader without the check of the compile status.
compile_shader_unchecked(d) ==
    [panic |-> FALSE, ret |-> d.name, msg |-> NoMsg]

compile_shader(d) ==
    IF DriverStatus(d) THEN [panic |-> FALSE, ret |-> d.name, msg |-> NoMsg]
    ELSE [panic |-> TRUE, ret |-> 0,
          msg |-> InfoLogPanic(d, "ShaderLogInfo not valid UTF-8")]

\* link_program with the check of the link status inverted.
link_program_inverted(vs, fs, d) ==
    IF ~DriverStatus(d) THEN [panic |-> FALSE, ret |-> d.name, msg |-> NoMsg]
    ELSE [panic |-> TRUE, ret |-> 0,
          msg |-> InfoLogPanic(d, "ProgramLogInfo not valid UTF-8")]

\* link_program without the check of the link status.
link_program_unchecked(vs, fs, d) ==
    [panic |-> FALSE, ret |-> d.name, msg |-> NoMsg]

link_program(vs, fs, d) ==
    IF DriverStatus(d) THEN [panic |-> FALSE, ret |-> d.name, msg |-> NoMsg]
    ELSE [panic |-> TRUE, ret |-> 0,
          msg |-> InfoLogPanic(d, "ProgramLogInfo not valid UTF-8")]

\* Outcomes the driver can give one compile or link: a success has a
\* nonzero name; a failure with the name 0 has no log.
StageOutcomes ==
    {[name |-> n, status |-> TRUE, log |-> <<>>] : n \in ObjectNames \ {0}}
    \cup {[name |-> n, status |-> FALSE, log |-> l] :
             n \in ObjectNames \ {0}, l \in Logs}
    \cup {[name |-> 0, status |-> FALSE, log |-> <<>>]}

\* Outcomes the driver can give one realize: shader and program names are
\* distinct where nonzero, buffer names are unused and nonzero.
RealizeOutcomes ==
    {d \in [headless : BOOLEAN, vs : StageOutcomes, fs : StageOutcomes,
            link : StageOutcomes, vbo : BufferNames, ebo : BufferNames,
            vao : BufferNames] :
        /\ d.vbo # d.ebo
        /\ d.vs.name # 0 => d.vs.name \notin {d.fs.name, d.link.name}
        /\ d.fs.name # 0 => d.fs.name # d.link.name}

(***************************************************************************)
(* State.                                                                  *)
(***************************************************************************)
VARIABLES
    pc,           \* where main and the toolkit are
    start,        \* the SystemTime captured by main
    vbo, ebo, vao, prog,   \* the four Arc<Mutex<_>> cells
    ctx,          \* the GLArea's GL context
    loaded,       \* gl::load_with has loaded the function pointers
    gl,           \* the driver's state
    queued,       \* a render of the GLArea is queued
    frames,       \* the most recent frames rendered, oldest first
    realizeCount, \* how often the realize callback has run
    written,      \* the handles the realize callback stored
    lastResize,   \* the most recent resize event, <<>> before the first
    failures,     \* the failures reported to the program so far
    closed,       \* the close handler has run
    driverLog,    \* the info log of the shader or program that failed
    abortCause, abortMsg, \* why the process aborted, and its panic message
    held,         \* the cells whose mutex is locked
    acquired,     \* the locks the last callback took, in order
    exitStatus    \* the process's exit status, -1 while it runs

vars == <<pc, start, vbo, ebo, vao, prog, ctx, loaded, gl, queued, frames,
          realizeCount, written, lastResize, failures, closed, driverLog,
          abortCause, abortMsg, held, acquired, exitStatus>>

cells == <<vbo, ebo, vao, prog>>

NoCtx == [made |-> FALSE, version |-> <<0, 0>>, current |-> FALSE]

Init ==
    /\ pc = "start"
    /\ start = NoTime
    /\ vbo = 0 /\ ebo = 0 /\ vao = 0 /\ prog = 0
    /\ ctx = NoCtx
    /\ loaded = FALSE
    /\ gl = GlInit
    /\ queued = FALSE
    /\ frames = <<>>
    /\ realizeCount = 0
    /\ written = <<>>
    /\ lastResize = <<>>
    /\ failures = {}
    /\ closed = FALSE
    /\ driverLog = <<>>
    /\ abortCause = "none"
    /\ abortMsg = NoMsg
    /\ held = {}
    /\ acquired = <<>>
    /\ exitStatus = -1

\* A panic in main exits with 101; one inside a toolkit callback crosses
\* the C frames of the toolkit and ends the process with 101 or by SIGABRT.
MainPanic == {101}
CallbackPanic == {101, 134}

\* A panic: the process ends with the message and a nonzero status.
Abort(cause, msg, statuses) ==
    /\ pc' = "aborted"
    /\ abortCause' = cause
    /\ abortMsg' = msg
    /\ exitStatus' \in statuses


(***************************************************************************)
(* main and GlWindow.                                                      *)
(***************************************************************************)
\* GlWindow::init(): gtk::init(), then the window, the GLArea and the
\* delete-event handler.
GlWindowInit(ok) ==
    /\ pc = "start"
    /\ IF ok
       THEN /\ pc' = "inited"
            /\ UNCHANGED <<failures, abortCause, abortMsg, exitStatus>>
       ELSE /\ Abort("init", [lit |-> "Failed to initialize gtk",
                              bytes |-> <<>>], MainPanic)
            /\ failures' = failures \cup {"init"}
    /\ UNCHANGED <<held, acquired,
                   start, vbo, ebo, vao, prog, ctx, loaded, gl, queued,
                   frames, realizeCount, written, lastResize, closed,
                   driverLog>>

\* main up to app.exec(): the start timestamp, the four cells, and the
\* registration of the four callbacks.
MainConnect(st) ==
    /\ pc = "inited"
    /\ pc' = "connected"
    /\ start' = st
    /\ vbo' = 0 /\ ebo' = 0 /\ vao' = 0 /\ prog' = 0
    /\ UNCHANGED <<held, acquired,
                   ctx, loaded, gl, queued, frames, realizeCount, written,
                   lastResize, failures, closed, driverLog, abortCause,
                   abortMsg, exitStatus>>

\* exec() calls show(): show_all() realizes the window and the GLArea.
ExecShow ==
    /\ pc = "connected"
    /\ pc' = "showing"
    /\ UNCHANGED <<held, acquired,
                   start, vbo, ebo, vao, prog, ctx, loaded, gl, queued,
                   frames, realizeCount, written, lastResize, failures,
                   closed, driverLog, abortCause, abortMsg, exitStatus>>

\* The create-context callback; err is the Debug text of the error.
CreateContext(ok, err) ==
    /\ pc = "showing"
    /\ IF ok
       THEN /\ pc' = "context"
            /\ ctx' = [made |-> TRUE, version |-> <<3, 0>>,
                       current |-> FALSE]
            /\ UNCHANGED <<failures, abortCause, abortMsg, exitStatus>>
       ELSE /\ Abort("context", [lit |-> "", bytes |-> err], CallbackPanic)
            /\ failures' = failures \cup {"context"}
            /\ UNCHANGED ctx
    /\ UNCHANGED <<held, acquired,
                   start, vbo, ebo, vao, prog, loaded, gl, queued, frames,
                   realizeCount, written, lastResize, closed, driverLog>>

\* The upload with the index buffer's size given as 6 bytes.
RealizeUploadShort(g, vboName, eboName) ==
    LET g1 == GlBindBuffer(g, "ARRAY_BUFFER", vboName)
        g2 == GlBufferData(g1, "ARRAY_BUFFER", 8 * 4, 4, verts)
        g3 == GlBindBuffer(g2, "ARRAY_BUFFER", 0)
        g4 == GlBindBuffer(g3, "ELEMENT_ARRAY_BUFFER", eboName)
        g5 == GlBufferData(g4, "ELEMENT_ARRAY_BUFFER", 6, 2, indices)
    IN  GlBindBuffer(g5, "ELEMENT_ARRAY_BUFFER", 0)

\* The GL calls of the realize callback after the handles are generated.
RealizeUpload(g, vboName, eboName) ==
    LET g1 == GlBindBuffer(g, "ARRAY_BUFFER", vboName)
        g2 == GlBufferData(g1, "ARRAY_BUFFER", 8 * 4, 4, verts)
        g3 == GlBindBuffer(g2, "ARRAY_BUFFER", 0)
        g4 == GlBindBuffer(g3, "ELEMENT_ARRAY_BUFFER", eboName)
        g5 == GlBufferData(g4, "ELEMENT_ARRAY_BUFFER", 6 * 2, 2, indices)
    IN  GlBindBuffer(g5, "ELEMENT_ARRAY_BUFFER", 0)

\* Mutex::lock() on a cell, in a callback that has taken st.acquired so
\* far: the thread blocks for good when the mutex is already locked.
lock(st, cell) ==
    IF st.blocked THEN st
    ELSE IF cell \in st.held THEN [st EXCEPT !.blocked = TRUE]
    ELSE [held |-> st.held \cup {cell},
          acquired |-> Append(st.acquired, cell),
          blocked |-> FALSE]

\* A callback that has taken no lock yet.
NoGuards(h) == [held |-> h, acquired |-> <<>>, blocked |-> FALSE]

\* The four lock() calls of the realize callback.
RealizeLocks(h) ==
    lock(lock(lock(lock(NoGuards(h), "vbo"), "ebo"), "vao"), "prog")

\* The four lock() calls of the render callback.
RenderLocks(h) ==
    lock(lock(lock(lock(NoGuards(h), "vbo"), "vao"), "ebo"), "prog")

\* Guards that stay locked when their scope ends.
DropGuardsLeaked(h, guards) == h

\* The end of the unsafe block: the guards taken in it are dropped.
DropGuards(h, guards) == h \ {guards[i] : i \in DOMAIN guards}

\* The realize callback, with the driver's outcomes d.
RealizeWith(d) ==
    /\ pc = "context"
    /\ ctx.made
    /\ realizeCount' = realizeCount + 1
    /\ ctx' = [ctx EXCEPT !.current = TRUE]
    /\ LET lk == RealizeLocks(held)
           vs == compile_shader(d.vs)
           fs == compile_shader(d.fs)
           lp == link_program(vs.ret, fs.ret, d.link)
       IN  IF ~d.headless
           THEN /\ Abort("headless", NoMsg, CallbackPanic)
                /\ failures' = failures \cup {"headless"}
                /\ driverLog' = <<>>
                /\ UNCHANGED <<loaded, vbo, ebo, vao, prog, gl, written,
                               held, acquired>>
           ELSE IF lk.blocked
           THEN /\ pc' = "deadlocked"
                /\ loaded' = TRUE
                /\ held' = lk.held
                /\ acquired' = lk.acquired
                /\ driverLog' = <<>>
                /\ UNCHANGED <<vbo, ebo, vao, prog, gl, written, failures,
                               abortCause, abortMsg, exitStatus>>
           ELSE /\ loaded' = TRUE
                /\ acquired' = lk.acquired
                /\ failures' = failures
                     \cup (IF ~DriverStatus(d.vs) THEN {"compile"} ELSE {})
                     \cup (IF ~vs.panic /\ ~DriverStatus(d.fs)
                           THEN {"compile"} ELSE {})
                     \cup (IF ~vs.panic /\ ~fs.panic /\ ~DriverStatus(d.link)
                           THEN {"link"} ELSE {})
                /\ driverLog' = (IF ~DriverStatus(d.vs) THEN d.vs.log
                                  ELSE IF ~DriverStatus(d.fs) THEN d.fs.log
                                  ELSE IF ~DriverStatus(d.link) THEN d.link.log
                                  ELSE <<>>)
                /\ IF vs.panic \/ fs.panic
                   THEN /\ Abort("compile",
                                 IF vs.panic THEN vs.msg ELSE fs.msg,
                                 CallbackPanic)
                        /\ held' = lk.held     \* the panic is raised under
                                               \* the four locks
                        /\ UNCHANGED <<vbo, ebo, vao, prog, gl, written>>
                   ELSE IF lp.panic
                   THEN /\ Abort("link", lp.msg, CallbackPanic)
                        /\ held' = lk.held
                        /\ UNCHANGED <<vbo, ebo, vao, prog, gl, written>>
                   ELSE /\ pc' = "realized"
                        /\ prog' = lp.ret
                        /\ vbo' = d.vbo
                        /\ ebo' = d.ebo
                        /\ vao' = d.vao
                        /\ written' = <<d.vbo, d.ebo, d.vao, lp.ret>>
                        /\ gl' = RealizeUpload(gl, d.vbo, d.ebo)
                        /\ held' = DropGuards(lk.held, lk.acquired)
                        /\ UNCHANGED <<abortCause, abortMsg, exitStatus>>
    /\ UNCHANGED <<start, queued, frames, lastResize, closed>>

\* The toolkit emits realize once the context exists.
Realize == pc = "context" /\ \E d \in RealizeOutcomes : RealizeWith(d)

\* exec() enters gtk::main() with the window shown and a first draw queued.
ExecMain ==
    /\ pc = "realized"
    /\ pc' = "running"
    /\ queued' = TRUE
    /\ UNCHANGED <<held, acquired,
                   start, vbo, ebo, vao, prog, ctx, loaded, gl, frames,
                   realizeCount, written, lastResize, failures, closed,
                   driverLog, abortCause, abortMsg, exitStatus>>

\* Resize with the width and height passed as height and width.
ResizeCallsSwapped(g, width, height) == GlViewport(g, 0, 0, height, width)

\* The GL call of the resize callback.
ResizeCalls(g, width, height) == GlViewport(g, 0, 0, width, height)

\* A resize callback whose gl::Viewport needs no loading.
ResizeBodyPreloaded(w, h) ==
    /\ lastResize' = <<w, h>>
    /\ gl' = ResizeCalls(gl, w, h)
    /\ UNCHANGED <<pc, failures, abortCause, abortMsg, exitStatus>>
    /\ UNCHANGED <<held, acquired, start, vbo, ebo, vao, prog, ctx, loaded,
                   queued, frames, realizeCount, written, closed, driverLog>>

\* The body of the resize callback.  A gl function called before
\* gl::load_with panics.
ResizeBody(w, h) ==
    /\ lastResize' = <<w, h>>
    /\ IF loaded
       THEN /\ gl' = ResizeCalls(gl, w, h)
            /\ UNCHANGED <<pc, failures, abortCause, abortMsg, exitStatus>>
       ELSE /\ Abort("unloaded", [lit |-> "gl function was not loaded",
                                  bytes |-> <<>>], CallbackPanic)
            /\ failures' = failures \cup {"unloaded"}
            /\ UNCHANGED gl
    /\ UNCHANGED <<held, acquired, start, vbo, ebo, vao, prog, ctx, loaded,
                   queued, frames, realizeCount, written, closed, driverLog>>

\* The resize callback, which GtkGLArea emits from its draw handler.
Resize(w, h) ==
    /\ pc = "running"
    /\ ResizeBody(w, h)

\* The render calls with vertex array 0 bound in place of the stored one.
RenderCallsStaleVao(g, c, vboV, eboV, vaoV, progV) ==
    LET g1  == GlClearColor(g, c)
        g2  == GlClear(g1)
        g3  == GlBindVertexArray(g2, 0)
        g4  == GlBindBuffer(g3, "ARRAY_BUFFER", vboV)
        g5  == GlBindBuffer(g4, "ELEMENT_ARRAY_BUFFER", eboV)
        g6  == GlUseProgram(g5, progV)
        g7  == GlEnableVertexAttribArray(g6)
        g8  == GlVertexAttribPointer(g7, 2, 0)
        g9  == GlDrawElements(g8, 6)
        g10 == GlDisableVertexAttribArray(g9)
        g11 == GlUseProgram(g10, 0)
        g12 == GlBindBuffer(g11, "ELEMENT_ARRAY_BUFFER", 0)
        g13 == GlBindBuffer(g12, "ARRAY_BUFFER", 0)
    IN  GlBindVertexArray(g13, 0)

\* The render calls without the unbinding of the array buffer.
RenderCallsNoUnbind(g, c, vboV, eboV, vaoV, progV) ==
    LET g1  == GlClearColor(g, c)
        g2  == GlClear(g1)
        g3  == GlBindVertexArray(g2, vaoV)
        g4  == GlBindBuffer(g3, "ARRAY_BUFFER", vboV)
        g5  == GlBindBuffer(g4, "ELEMENT_ARRAY_BUFFER", eboV)
        g6  == GlUseProgram(g5, progV)
        g7  == GlEnableVertexAttribArray(g6)
        g8  == GlVertexAttribPointer(g7, 2, 0)
        g9  == GlDrawElements(g8, 6)
        g10 == GlDisableVertexAttribArray(g9)
        g11 == GlUseProgram(g10, 0)
        g12 == GlBindBuffer(g11, "ELEMENT_ARRAY_BUFFER", 0)
    IN  GlBindVertexArray(g12, 0)

\* The GL calls of the render callback from the clear to the last unbind,
\* with the clear color c.
RenderCalls(g, c, vboV, eboV, vaoV, progV) ==
    LET g1  == GlClearColor(g, c)
        g2  == GlClear(g1)
        g3  == GlBindVertexArray(g2, vaoV)
        g4  == GlBindBuffer(g3, "ARRAY_BUFFER", vboV)
        g5  == GlBindBuffer(g4, "ELEMENT_ARRAY_BUFFER", eboV)
        g6  == GlUseProgram(g5, progV)
        g7  == GlEnableVertexAttribArray(g6)
        g8  == GlVertexAttribPointer(g7, 2, 0)
        g9  == GlDrawElements(g8, 6)
        g10 == GlDisableVertexAttribArray(g9)
        g11 == GlUseProgram(g10, 0)
        g12 == GlBindBuffer(g11, "ELEMENT_ARRAY_BUFFER", 0)
        g13 == GlBindBuffer(g12, "ARRAY_BUFFER", 0)
    IN  GlBindVertexArray(g13, 0)

\* The frames kept: the MaxFrames most recent.
PushFrame(fs, f) ==
    IF Len(fs) < MaxFrames THEN Append(fs, f) ELSE Append(Tail(fs), f)

\* A render callback that returns without asking for another frame.
queue_render_dropped(q) == q

\* gl_area.queue_render(): a redraw of the GLArea is pending.
queue_render(q) == TRUE

\* The render callback, with the clock reading now.  The toolkit clears
\* the pending redraw when it starts the draw.
Render(now) ==
    /\ pc = "running"
    /\ queued
    /\ failures' = failures
          \cup (IF TimeLt(now, start) THEN {"clock"} ELSE {})
    /\ LET dur == duration_since(now, start)
           lk  == RenderLocks(held)
       IN  IF ~dur.ok
           THEN /\ Abort("clock", [lit |-> "RIP", bytes |-> <<>>],
                         CallbackPanic)
                /\ UNCHANGED <<gl, frames, queued, held, acquired>>
           ELSE \E millis \in {Millis(dur)} :
                \E t \in {Phase(millis)} :
                \E c \in {ClearColorArgs(t)} :
                    /\ acquired' = lk.acquired
                    /\ IF lk.blocked
                       THEN /\ pc' = "deadlocked"
                            /\ gl' = GlClear(GlClearColor(gl, c))
                            /\ held' = lk.held
                            /\ queued' = FALSE
                            /\ UNCHANGED <<frames, abortCause, abortMsg,
                                           exitStatus>>
                       ELSE /\ gl' = RenderCalls(gl, c, vbo, ebo, vao, prog)
                            /\ frames' = PushFrame(frames,
                                             [millis |-> millis, t |-> t,
                                              color |-> gl'.clearColor,
                                              draw |-> gl'.lastDraw])
                            /\ held' = DropGuards(lk.held, lk.acquired)
                            /\ queued' = queue_render(FALSE)
                            /\ UNCHANGED <<pc, abortCause, abortMsg,
                                           exitStatus>>
    /\ UNCHANGED <<start, vbo, ebo, vao, prog, ctx, loaded, realizeCount,
                   written, lastResize, closed, driverLog>>

\* A handler that leaves the event loop running.
main_quit_missing(loop) == loop

\* gtk::main_quit(): the innermost event loop is told to return.
main_quit(loop) == IF loop = "running" THEN "quitting" ELSE loop

\* The delete-event handler: gtk::main_quit(), then Inhibit(false) lets the
\* toolkit destroy the window.
DeleteEvent ==
    /\ pc = "running"
    /\ pc' = main_quit(pc)
    /\ closed' = TRUE
    /\ queued' = FALSE
    /\ UNCHANGED <<held, acquired,
                   start, vbo, ebo, vao, prog, ctx, loaded, gl, frames,
                   realizeCount, written, lastResize, failures, driverLog,
                   abortCause, abortMsg, exitStatus>>

\* gtk::main() returns, exec() returns, main returns.
ExecReturn ==
    /\ pc = "quitting"
    /\ pc' = "exited"
    /\ exitStatus' = 0
    /\ UNCHANGED <<held, acquired,
                   start, vbo, ebo, vao, prog, ctx, loaded, gl, queued,
                   frames, realizeCount, written, lastResize, failures,
                   closed, driverLog, abortCause, abortMsg>>

Next ==
    \/ \E ok \in BOOLEAN : GlWindowInit(ok)
    \/ \E st \in SampleStart : MainConnect(st)
    \/ ExecShow
    \/ \E ok \in BOOLEAN, err \in Logs :
          CreateContext(ok, err)
    \/ Realize
    \/ ExecMain
    \/ \E sz \in Sizes : Resize(sz[1], sz[2])
    \/ \E now \in SampleClock : Render(now)
    \/ DeleteEvent
    \/ ExecReturn

Spec == Init /\ [][Next]_vars

(***************************************************************************)
(* LiveSpec: once gtk::main_quit() has been called, gtk::main() returns.   *)
(***************************************************************************)
LiveSpec == Init /\ [][Next]_vars /\ WF_vars(ExecReturn)

(***************************************************************************)
(* LoopSpec: the event loop, from the state in which a successful realize  *)
(* leaves the program.  The toolkit dispatches a pending redraw of the     *)
(* GLArea, and gtk::main() returns once gtk::main_quit() has been called.  *)
(***************************************************************************)
RenderStep == \E now \in SampleClock : Render(now)

InitLoop ==
    /\ pc = "realized"
    /\ start \in SampleStart
    /\ vbo = 1 /\ ebo = 2 /\ vao = 1 /\ prog = 3
    /\ ctx = [made |-> TRUE, version |-> <<3, 0>>, current |-> TRUE]
    /\ loaded = TRUE
    /\ gl = RealizeUpload(GlInit, 1, 2)
    /\ queued = FALSE
    /\ frames = <<>>
    /\ realizeCount = 1
    /\ written = <<1, 2, 1, 3>>
    /\ lastResize = <<>>
    /\ failures = {}
    /\ closed = FALSE
    /\ driverLog = <<>>
    /\ abortCause = "none"
    /\ abortMsg = NoMsg
    /\ held = {}
    /\ acquired = <<"vbo", "ebo", "vao", "prog">>
    /\ exitStatus = -1

NextLoop ==
    \/ ExecMain
    \/ \E sz \in Sizes : Resize(sz[1], sz[2])
    \/ RenderStep
    \/ DeleteEvent
    \/ ExecReturn

LoopSpec ==
    InitLoop /\ [][NextLoop]_vars /\ WF_vars(ExecReturn) /\ WF_vars(RenderStep)

(***************************************************************************)
(* SpecEarly: a toolkit that may emit resize as soon as the GL context     *)
(* exists, before it emits realize.                                        *)
(***************************************************************************)
ResizeEarly(w, h) ==
    /\ pc = "context"
    /\ ResizeBody(w, h)

NextEarly ==
    \/ Next
    \/ \E sz \in Sizes : ResizeEarly(sz[1], sz[2])

SpecEarly == Init /\ [][NextEarly]_vars

(***************************************************************************)
(* SpecColor: the elapsed-time-to-color function of render on every        *)
(* millisecond of two periods.  It starts in the state a successful        *)
(* realize leaves, with the event loop running, and renders one frame.     *)
(***************************************************************************)
InitColor ==
    /\ pc = "running"
    /\ start \in FullStart
    /\ vbo = 1 /\ ebo = 2 /\ vao = 1 /\ prog = 3
    /\ ctx = [made |-> TRUE, version |-> <<3, 0>>, current |-> TRUE]
    /\ loaded = TRUE
    /\ gl = RealizeUpload(GlInit, 1, 2)
    /\ queued = TRUE
    /\ frames = <<>>
    /\ realizeCount = 1
    /\ written = <<1, 2, 1, 3>>
    /\ lastResize = <<>>
    /\ failures = {}
    /\ closed = FALSE
    /\ driverLog = <<>>
    /\ abortCause = "none"
    /\ abortMsg = NoMsg
    /\ held = {}
    /\ acquired = <<"vbo", "ebo", "vao", "prog">>
    /\ exitStatus = -1

NextColor == frames = <<>> /\ \E now \in FullClock : Render(now)

SpecColor == InitColor /\ [][NextColor]_vars

(***************************************************************************)
(* Properties.                                                             *)
(***************************************************************************)
FourFailures == {"init", "context", "compile", "link"}
SixFailures == FourFailures \cup {"headless", "clock"}
NoHandles == <<0, 0, 0, 0>>

\* The handles bound when frame f issued its draw, in the order of cells.
FrameHandles(f) ==
    <<f.draw.arrayBuffer, f.draw.elementArrayBuffer, f.draw.vertexArray,
      f.draw.program>>

\* C1: realize runs at most once and has run exactly once before any
\* render; every render binds the four handles realize stored, and none of
\* them is the initial value 0.
C1_RealizeBeforeRender ==
    /\ realizeCount <= 1
    /\ frames # <<>> =>
        /\ realizeCount = 1
        /\ written # <<>>
        /\ cells = written
        /\ \A j \in 1..4 : written[j] # 0
        /\ \A i \in 1..Len(frames) : FrameHandles(frames[i]) = written

C1_Witness == pc = "running" /\ Len(frames) >= 2 /\ realizeCount = 1

\* C2: for every elapsed millisecond count seen by render the phase t is in
\* [0, 2) and the clear color has red in [0, 1), green in (0, 1], blue = 1,
\* alpha = 1 and red + green = 1 (the f32 sum).
C2_ColorInRange ==
    \A i \in 1..Len(frames) :
        LET t == frames[i].t
            c == frames[i].color
        IN  /\ frames[i].millis >= 0
            /\ F32Le(F32Zero, t) /\ F32Lt(t, F32Two)
            /\ F32Le(F32Zero, c[1]) /\ F32Lt(c[1], F32One)
            /\ F32Lt(F32Zero, c[2]) /\ F32Le(c[2], F32One)
            /\ c[3] = F32One
            /\ c[4] = F32One
            /\ F32Add(c[1], c[2]) = F32One
            /\ i = Len(frames) => gl.clearColor = c

C2_Witness ==
    \E i \in 1..Len(frames) :
        frames[i].millis >= 2000 /\ frames[i].millis % 2000 = 1999

\* The three most recent frames were rendered at 500, 1500 and 2500 ms.
C3_Scenario ==
    /\ Len(frames) >= 3
    /\ LET n == Len(frames)
       IN  <<frames[n - 2].millis, frames[n - 1].millis, frames[n].millis>>
               = <<500, 1500, 2500>>

C3_Phases ==
    LET n == Len(frames) IN <<frames[n - 2].t, frames[n - 1].t, frames[n].t>>

C3_Colors ==
    LET n == Len(frames)
    IN  <<frames[n - 2].color, frames[n - 1].color, frames[n].color>>

\* C3 as stated: renders at 500, 1500 and 2500 ms compute the phases 0.25,
\* 0.75, 0.25 and the clear colors (0.125, 0.875, 1, 1),
\* (0.375, 0.625, 1, 1), (0.125, 0.875, 1, 1).
C3_Original ==
    C3_Scenario =>
        /\ C3_Phases = <<F32Dyadic(1, 2), F32Dyadic(3, 2), F32Dyadic(1, 2)>>
        /\ C3_Colors =
             <<<<F32Dyadic(1, 3), F32Dyadic(7, 3), F32One, F32One>>,
               <<F32Dyadic(3, 3), F32Dyadic(5, 3), F32One, F32One>>,
               <<F32Dyadic(1, 3), F32Dyadic(7, 3), F32One, F32One>>>>

\* C3 amended: renders at 500, 1500 and 2500 ms compute the phases 0.5,
\* 1.5, 0.5 and the clear colors (0.25, 0.75, 1, 1), (0.75, 0.25, 1, 1),
\* (0.25, 0.75, 1, 1), in that order.
C3_Amended ==
    C3_Scenario =>
        /\ C3_Phases = <<F32Dyadic(1, 1), F32Dyadic(3, 1), F32Dyadic(1, 1)>>
        /\ C3_Colors =
             <<<<F32Dyadic(1, 2), F32Dyadic(3, 2), F32One, F32One>>,
               <<F32Dyadic(3, 2), F32Dyadic(1, 2), F32One, F32One>>,
               <<F32Dyadic(1, 2), F32Dyadic(3, 2), F32One, F32One>>>>

C3_Witness == C3_Scenario /\ pc = "running"

\* C4: when compile_shader finds the compile status not true, the process
\* aborts with the driver's info log, verbatim, as its message, and no
\* shader handle reaches the caller: the cells keep their initial values.
C4_CompileLogVerbatim ==
    (abortCause = "compile" /\ Utf8Ok(driverLog)) =>
        /\ pc = "aborted"
        /\ abortMsg = [lit |-> "", bytes |-> driverLog]
        /\ cells = NoHandles
        /\ written = <<>>

\* C5: when link_program finds the link status not true, the process aborts
\* with the driver's program info log as its message, and no program
\* handle is returned: the program cell keeps its initial value 0.
C5_LinkLogVerbatim ==
    (abortCause = "link" /\ Utf8Ok(driverLog)) =>
        /\ pc = "aborted"
        /\ abortMsg = [lit |-> "", bytes |-> driverLog]
        /\ prog = 0

\* C6: a failure of toolkit initialization, context creation, shader
\* compile or program link leaves the process aborted at once: nothing
\* later in the callback has run, no render has run or will run, and the
\* failed operation is not retried.
C6_FailFast ==
    /\ [](failures \cap FourFailures # {} =>
            /\ pc = "aborted"
            /\ exitStatus > 0
            /\ Cardinality(failures) = 1
            /\ frames = <<>>
            /\ cells = NoHandles
            /\ written = <<>>
            /\ gl = GlInit
            /\ realizeCount <= 1)
    /\ [][pc # "aborted"]_vars

C6_Witness == pc = "aborted" /\ abortCause = "link" /\ realizeCount = 1

\* C7 as stated: when toolkit initialization, context creation, shader
\* compile and program link all succeed, no callback aborts.
C7_Original == failures \cap FourFailures = {} => pc # "aborted"

\* C7 amended: the process aborts only through the four listed failures, a
\* failed build of the headless context in realize, or a clock reading
\* earlier than the start timestamp in render; when none of the six
\* occurs, every callback runs to completion.
C7_Amended ==
    failures \cap SixFailures = {} =>
        /\ pc # "aborted"
        /\ exitStatus \in {-1, 0}
        /\ realizeCount = 1 =>
              pc \in {"realized", "running", "quitting", "exited"}
              /\ written # <<>>
        /\ lastResize # <<>> =>
              gl.viewport = <<0, 0, lastResize[1], lastResize[2]>>

C7_Witness ==
    /\ failures = {}
    /\ pc = "running"
    /\ lastResize # <<>>
    /\ Len(frames) >= 2

\* C8: exec() returns if and only if the close handler has fired: after the
\* close event the loop has quit, no render, resize or realize runs, exec()
\* returns and the process exits with status 0; without a close event
\* exec() does not return.
C8_ExecReturnsIffClosed ==
    /\ [](pc = "exited" => closed /\ exitStatus = 0)
    /\ [](exitStatus = 0 => pc = "exited")
    /\ [](closed => pc \in {"quitting", "exited"})
    /\ [][closed => /\ frames' = frames
                    /\ gl' = gl
                    /\ lastResize' = lastResize
                    /\ realizeCount' = realizeCount]_vars
    /\ (closed ~> pc = "exited")

C8_Witness == pc = "exited" /\ closed /\ frames # <<>>

\* Vertex i (from 0) of the vertex data vs.
Vertex(vs, i) == <<vs[2 * i + 1], vs[2 * i + 2]>>

\* Twice the signed area of the triangle a, b, c: positive when the
\* winding is counter-clockwise.
Area2(a, b, c) ==
    (b[1] - a[1]) * (c[2] - a[2]) - (b[2] - a[2]) * (c[1] - a[1])

\* C9: the index data is 6 entries in {0,1,2,3} forming 2 triangles that
\* reference all 4 vertices, both counter-clockwise over the 4 distinct
\* vertex positions, whose coordinates are all -0.5 or 0.5.
C9_Geometry ==
    written # <<>> =>
        LET vs == gl.data[vbo]
            ix == gl.data[ebo]
        IN  /\ Len(ix) = 6
            /\ \A i \in 1..6 : ix[i] \in 0..3
            /\ {ix[i] : i \in 1..6} = 0..3
            /\ Len(vs) = 8
            /\ \A i \in 1..8 : vs[i] \in {-5, 5}
            /\ Cardinality({Vertex(vs, i) : i \in 0..3}) = 4
            /\ \A k \in 0..1 :
                 Area2(Vertex(vs, ix[3 * k + 1]), Vertex(vs, ix[3 * k + 2]),
                       Vertex(vs, ix[3 * k + 3])) > 0
            /\ \A i \in 1..Len(frames) :
                 frames[i].draw.count = 6 /\ frames[i].draw.elements = ix

C9_Witness == written # <<>> /\ frames # <<>> /\ Len(gl.data[ebo]) = 6

\* C10: after any resize events the viewport is (0, 0, width, height) of
\* the most recent one, and neither realize nor render changes the
\* viewport.
C10_Viewport ==
    /\ [](lastResize # <<>> =>
            gl.viewport = <<0, 0, lastResize[1], lastResize[2]>>)
    /\ [][(frames' # frames \/ realizeCount' # realizeCount) =>
            gl'.viewport = gl.viewport]_vars

C10_Witness ==
    /\ lastResize = <<640, 480>>
    /\ gl.viewport = <<0, 0, 640, 480>>
    /\ frames # <<>>

\* The event loop ends with the window closed.
C11_EndsByClose == pc = "running" /\ pc' # "running" => closed'

\* The event loop ends with the window closed or with render's panic on a
\* clock reading earlier than start.
C11_EndsByCloseOrClock ==
    pc = "running" /\ pc' # "running" =>
        \/ closed'
        \/ pc' = "aborted" /\ abortCause' = "clock" /\ ~closed'

\* C11 as stated: while the event loop runs a render is pending, so every
\* render that completes has queued the next; a loop that never ends
\* renders infinitely often; only the close event ends the loop.
C11_Original ==
    /\ [](pc = "running" => queued)
    /\ [][C11_EndsByClose]_vars
    /\ (<>[](pc = "running") => []<><<RenderStep>>_vars)

\* C11 amended: as C11, but the loop ends through the close event or
\* through the panic of a render whose clock reading is earlier than start.
C11_Amended ==
    /\ [](pc = "running" => queued)
    /\ [][C11_EndsByCloseOrClock]_vars
    /\ (<>[](pc = "running") => []<><<RenderStep>>_vars)

C11_Witness ==
    pc = "running" /\ queued /\ ~closed /\ Len(frames) >= 2

\* C12: the four cells change only in the step of a realize callback that
\* completes, which stores the handles it made; the callbacks dispatched
\* while the window is shown (create-context) and while the event loop
\* runs (resize, render) leave them unchanged; every frame kept was drawn
\* with the values the cells hold.
C12_WriteOnce ==
    /\ [][cells' # cells =>
            /\ pc = "context" /\ pc' = "realized"
            /\ realizeCount = 0
            /\ cells = NoHandles
            /\ cells' = written']_vars
    /\ [][(pc = "showing" \/ pc = "running") => (cells' = cells)]_vars
    /\ [](\A i \in DOMAIN frames :
            FrameHandles(frames[i]) = cells /\ cells = written)

C12_Witness ==
    /\ Len(frames) >= 2
    /\ lastResize # <<>>
    /\ cells = written
    /\ cells # NoHandles

RealizeOrder == <<"vbo", "ebo", "vao", "prog">>
RenderOrder == <<"vbo", "vao", "ebo", "prog">>

\* C13: no callback finds a mutex locked, so none blocks; no lock is held
\* once a callback has returned; the last callback took its four locks in
\* realize's order vbo, ebo, vao, prog or in render's order vbo, vao, ebo,
\* prog.
C13_LocksFree ==
    /\ pc # "deadlocked"
    /\ pc # "aborted" => held = {}
    /\ frames # <<>> => acquired = RenderOrder
    /\ written # <<>> /\ frames = <<>> => acquired = RealizeOrder
    /\ written = <<>> /\ pc # "aborted" => acquired = <<>>

C13_Witness ==
    /\ pc = "running"
    /\ realizeCount = 1
    /\ frames # <<>>
    /\ acquired = RenderOrder
    /\ held = {}

\* C14 as stated: every resize handled once the context exists, before or
\* after realize, completes and sets the viewport to its width and height.
C14_Original ==
    lastResize # <<>> =>
        /\ abortCause # "unloaded"
        /\ gl.viewport = <<0, 0, lastResize[1], lastResize[2]>>

\* C14 amended: a resize handled after realize has loaded the GL functions
\* sets the viewport to its width and height, any number of times; one
\* handled before realize panics and leaves the viewport as it was.
C14_Amended ==
    /\ lastResize # <<>> /\ abortCause # "unloaded" =>
          /\ loaded /\ realizeCount = 1
          /\ gl.viewport = <<0, 0, lastResize[1], lastResize[2]>>
    /\ lastResize # <<>> /\ realizeCount = 0 =>
          /\ pc = "aborted" /\ abortCause = "unloaded"
          /\ abortMsg.lit = "gl function was not loaded"
          /\ gl.viewport = GlInit.viewport
    /\ abortCause = "unloaded" => realizeCount = 0 /\ ~loaded

C14_Witness ==
    lastResize # <<>> /\ realizeCount = 0 /\ ctx.made

BindingsClean ==
    /\ gl.arrayBuffer = 0
    /\ gl.elementArrayBuffer = 0
    /\ gl.vertexArray = 0
    /\ gl.program = 0
    /\ ~gl.attrib0

\* C15: once realize has completed, the two buffer bindings, the vertex
\* array binding and the current program are 0 and attribute 0 is disabled
\* whenever no callback runs; every frame drew 6 indices with the handles
\* realize stored bound and attribute 0 enabled.
C15_CleanBindings ==
    /\ written # <<>> => BindingsClean
    /\ \A i \in DOMAIN frames :
          /\ frames[i].draw.count = 6
          /\ FrameHandles(frames[i]) = written
          /\ frames[i].draw.attrib0

C15_Witness ==
    /\ pc = "running"
    /\ Len(frames) >= 2
    /\ BindingsClean
    /\ gl.lastDraw.count = 6

\* The color render computes for an elapsed millisecond count m.
ColorAt(m) == ClearColorArgs(Phase(m))

\* C16: the color of a frame rendered m milliseconds after start is the
\* color computed for m + 2000; and unless m is the last millisecond of its
\* period, the color for m + 1 has a strictly larger red and a strictly
\* smaller green.
C16_Periodic ==
    \A i \in 1..Len(frames) :
        LET m == frames[i].millis
            c == frames[i].color
        IN  /\ c = ColorAt(m)
            /\ c = ColorAt(m + 2000)
            /\ m % 2000 < 1999 =>
                  /\ F32Lt(c[1], ColorAt(m + 1)[1])
                  /\ F32Lt(ColorAt(m + 1)[2], c[2])
            /\ m % 2000 = 1999 =>
                  /\ F32Lt(ColorAt(m + 1)[1], c[1])
                  /\ ColorAt(m + 1)[1] = F32Zero

C16_Witness ==
    /\ Len(frames) = 1
    /\ frames[1].millis = 3998
    /\ gl.clearColor = ColorAt(1998)

================================================================================
